---- MODULE Spec2Model ----
(***************************************************************************)
(* Uplift decision tree (src/src/main.rs): UpliftTreeModel::new, fit,      *)
(* calc_split_values, split_set, summary, calc_score, calc_norm and the    *)
(* recursive build, as a state machine over an explicit call stack.        *)
(*                                                                         *)
(* A DataFrame is the set of row ids of `table` it holds (filters keep the *)
(* rows' identity and order).  f64 values are exact rationals [n, d];      *)
(* f64::MIN is the rational F64Min, below every gain.  Feature cells are   *)
(* non-null: calc_split_values unwraps every value it reads.               *)
(***************************************************************************)
EXTENDS Integers, Sequences, FiniteSets

VARIABLES
    table,                \* the loaded rows: row id -> [x, c, t, y]
    max_depth,            \* hyperparameters (main.rs 45-49)
    min_sample_leaf,
    feature_sample_size,
    max_splits,
    nodes,                \* RefCell<Vec<TreeNode>> contents, index -> TreeNode
    borrowed,             \* RefCell borrow flag: an exclusive RefMut is alive
    stack,                \* the chain of build calls in flight, root first
    ret,                  \* the value a build call has just returned
    status,               \* new | running | done | panic_*
    arg,                  \* the input of the pure-function specifications
    out                   \* the output of the pure-function specifications

vars == <<table, max_depth, min_sample_leaf, feature_sample_size, max_splits,
          nodes, borrowed, stack, ret, status, arg, out>>

params == <<table, max_depth, min_sample_leaf, feature_sample_size, max_splits>>

(***************************************************************************)
(* Bounds                                                                  *)
(***************************************************************************)
MaxRows == 6        \* rows of the data file given to fit
MaxDepth == 2       \* max_depth ranges over 1..MaxDepth
MaxLeaf == 2        \* min_sample_leaf ranges over 0..MaxLeaf
MaxSplits == 2      \* max_splits ranges over 1..MaxSplits
MaxLen == 3         \* column length in the pure-function specifications
MaxVal == 3         \* numeric cell values 1..MaxVal in those specifications

Cats == {"a", "b", "c"}

(***************************************************************************)
(* Exact rationals standing for f64                                        *)
(***************************************************************************)
Abs(n) == IF n < 0 THEN -n ELSE n

RECURSIVE GCD(_, _)
GCD(a, b) == IF b = 0 THEN a ELSE GCD(b, a % b)

Reduce(n, d, g) ==
    IF d < 0 THEN [n |-> (-n) \div g, d |-> (-d) \div g]
    ELSE [n |-> n \div g, d |-> d \div g]

Rat(n, d) == Reduce(n, d, GCD(Abs(n), Abs(d)))

\* sums of equal denominators and squares of reduced fractions need no
\* common denominator
RAdd(a, b) == IF a.d = b.d THEN Rat(a.n + b.n, a.d)
              ELSE Rat(a.n * b.d + b.n * a.d, a.d * b.d)
RSub(a, b) == IF a.d = b.d THEN Rat(a.n - b.n, a.d)
              ELSE Rat(a.n * b.d - b.n * a.d, a.d * b.d)
RMul(a, b) == Rat(a.n * b.n, a.d * b.d)
RDiv(a, b) == Rat(a.n * b.d, a.d * b.n)
RGt(a, b) == a.n * b.d > b.n * a.d
ROne == [n |-> 1, d |-> 1]
RZero == [n |-> 0, d |-> 1]
RHalf == [n |-> 1, d |-> 2]
RSq(a) == [n |-> a.n * a.n, d |-> a.d * a.d]
\* 1 - a
RCo(a) == [n |-> a.d - a.n, d |-> a.d]

\* f64::MIN: every gain is (a difference of values in [0,1]) / (a norm >= 0.5)
F64Min == [n |-> -1000, d |-> 1]

(***************************************************************************)
(* Data types                                                              *)
(***************************************************************************)
Numeric(v) == [kind |-> "Numeric", num |-> v, str |-> ""]
Str(s) == [kind |-> "Str", num |-> 0, str |-> s]

TreeNode_new ==
    [col_name |-> "", split_value |-> Numeric(0),
     true_branch |-> -1, false_branch |-> -1]

feature_cols == <<"x", "c">>

is_numeric(f) == f = "x"

\* the cell of row r in feature column f, as the SplitValue it would become
Cell(r, f) == IF is_numeric(f) THEN Numeric(table[r].x) ELSE Str(table[r].c)

RECURSIVE SetToSeq(_)
SetToSeq(S) ==
    IF S = {} THEN <<>>
    ELSE LET m == CHOOSE a \in S : \A b \in S : a <= b
         IN  <<m>> \o SetToSeq(S \ {m})

\* data.column(f): the cells of the frame's rows, in row order
Column(data, f) == LET rs == SetToSeq(data) IN [i \in 1..Len(rs) |-> Cell(rs[i], f)]

Pow2(k) == IF k <= 0 THEN 1 ELSE 2 ^ k

\* vec![TreeNode::new(); 1 << max_depth - 1]
NodesLen(md) == Pow2(md - 1)

(***************************************************************************)
(* calc_split_values (main.rs 126-176)                                     *)
(***************************************************************************)
Range(s) == {s[i] : i \in DOMAIN s}

\* the sequences of k distinct elements of S, in every order
InjSeqs(S, k) == {s \in [1..k -> S] : \A i, j \in 1..k : i # j => s[i] # s[j]}

\* col_values.unique(): the distinct values, in an order polars does not fix
unique(col) == InjSeqs(Range(col), Cardinality(Range(col)))

RECURSIVE SortNumeric(_)
SortNumeric(col) ==
    IF col = <<>> THEN <<>>
    ELSE LET i == CHOOSE i \in DOMAIN col :
                     /\ \A j \in DOMAIN col : col[i].num <= col[j].num
                     /\ \A j \in 1..(i - 1) : col[j].num # col[i].num
             rest == [j \in 1..(Len(col) - 1) |-> IF j < i THEN col[j] ELSE col[j + 1]]
         IN  <<col[i]>> \o SortNumeric(rest)

\* split_values.dedup_by(..): drops an element equal to the one kept before it
RECURSIVE dedup_by(_)
dedup_by(s) ==
    IF Len(s) <= 1 THEN s
    ELSE LET r == dedup_by(SubSeq(s, 1, Len(s) - 1))
         IN  IF s[Len(s)].num = r[Len(r)].num THEN r ELSE Append(r, s[Len(s)])

\* split_range with the operands of the division exchanged
split_range_swapped(col, ms) == ms \div Len(col)

\* let split_range = col_values.len() as i32 / self.max_splits
split_range(col, ms) == Len(col) \div ms

\* the sorted values at the 0-based positions i with i % split_range == split_range - 1
StrideSelect(col, ms) ==
    LET sr == split_range(col, ms)
        sorted == SortNumeric(col)
        idx == {i \in 1..Len(sorted) : (i - 1) % sr = sr - 1}
        pos == SetToSeq(idx)
    IN  [k \in 1..Len(pos) |-> sorted[pos[k]]]

\* which of the three branches a column takes
Branch(col, numeric, ms) ==
    IF Cardinality(Range(col)) <= ms THEN "all"
    ELSE IF numeric THEN "stride" ELSE "sample"

\* every result calc_split_values can return for the column; panic: the
\* remainder by a zero split_range
calc_split_values(col, numeric, ms) ==
    LET b == Branch(col, numeric, ms) IN
    CASE b = "all" ->
            {[panic |-> FALSE, branch |-> b, vals |-> u] : u \in unique(col)}
      [] b = "stride" ->
            IF split_range(col, ms) = 0
            THEN {[panic |-> TRUE, branch |-> b, vals |-> <<>>]}
            ELSE {[panic |-> FALSE, branch |-> b,
                   vals |-> dedup_by(StrideSelect(col, ms))]}
      [] OTHER ->
            {[panic |-> FALSE, branch |-> b, vals |-> u] :
                u \in InjSeqs(Range(col), ms)}

(***************************************************************************)
(* split_set (main.rs 178-194)                                             *)
(***************************************************************************)
\* col(f).lt_eq(v) / col(f).eq(v)
LeftPred(v, c) == IF v.kind = "Numeric" THEN c.num <= v.num ELSE c.str = v.str

\* the right filter with gt_eq in place of gt
RightPred_Ge(v, c) == IF v.kind = "Numeric" THEN c.num >= v.num ELSE c.str # v.str

\* col(f).gt(v) / col(f).neq(v)
RightPred(v, c) == IF v.kind = "Numeric" THEN c.num > v.num ELSE c.str # v.str

split_set(v, f, data) ==
    <<{r \in data : LeftPred(v, Cell(r, f))},
      {r \in data : RightPred(v, Cell(r, f))}>>

(***************************************************************************)
(* summary, calc_score, calc_norm (main.rs 196-238)                        *)
(***************************************************************************)
RECURSIVE SumY(_)
SumY(S) == IF S = {} THEN 0
           ELSE LET r == CHOOSE r \in S : TRUE IN table[r].y + SumY(S \ {r})

\* groupby(treatment).agg(count, sum(outcome)).sort(treatment); <<>> unless
\* the result has exactly two group rows
summary(data) ==
    LET groups == {table[r].t : r \in data} IN
    IF Cardinality(groups) # 2 THEN <<>>
    ELSE LET lo == CHOOSE g \in groups : \A h \in groups : g <= h
             hi == CHOOSE g \in groups : g # lo
             G(g) == {r \in data : table[r].t = g}
         IN  <<Cardinality(G(lo)), SumY(G(lo)), Cardinality(G(hi)), SumY(G(hi))>>

\* (p - q)^2 with p = v[1]/v[0], q = v[3]/v[2]; the caller has checked the
\* assertion v.len() == 4
calc_score(v) == RSq(RSub(Rat(v[2], v[1]), Rat(v[4], v[3])))

calc_norm(n_c, n_t, n_c_left, n_t_left) ==
    LET p_t == Rat(n_t, n_t + n_c)
        p_c == RCo(p_t)
        p_c_left == Rat(n_c_left, n_t_left + n_c_left)
        p_t_left == RCo(p_c_left)
    IN  RAdd(RAdd(RAdd(RMul(RSub(RCo(RSq(p_t)), RSq(p_c)),
                            RSq(RSub(p_c_left, p_t_left))),
                       RMul(p_t, RCo(RSq(p_t_left)))),
                  RMul(p_c, RCo(RSq(p_c_left)))),
             RHalf)

\* main.rs 271-277; cur_score is computed once, before the loop (main.rs 246)
Gain(data, cur_score, cur_summary, data_left, left_summary, right_summary) ==
    LET left_score == calc_score(left_summary)
        right_score == calc_score(right_summary)
        p == Rat(Cardinality(data_left), Cardinality(data))
    IN  RDiv(RSub(RAdd(RMul(left_score, p), RMul(right_score, RCo(p))),
                  cur_score),
             calc_norm(cur_summary[1], cur_summary[3],
                       left_summary[1], left_summary[3]))

(***************************************************************************)
(* build (main.rs 240-297): the candidate loop                             *)
(***************************************************************************)
\* self.feature_cols.choose_multiple(rng, feature_sample_size), in any order
SampleFeatures(k) == InjSeqs(Range(feature_cols), k)

\* the candidates of feature f for the values calc_split_values returned
Tagged(f, vals) == [i \in 1..Len(vals) |-> [f |-> f, v |-> vals[i]]]

\* the skip with < in place of <=
Discard_Lt(left_summary, right_summary) ==
    \/ Len(left_summary) # 4
    \/ Len(right_summary) # 4
    \/ left_summary[1] + left_summary[3] < min_sample_leaf
    \/ right_summary[1] + right_summary[3] < min_sample_leaf

\* the skip without the length check of the right summary
Discard_LeftOnly(left_summary, right_summary) ==
    \/ Len(left_summary) # 4
    \/ left_summary[1] + left_summary[3] <= min_sample_leaf
    \/ Len(right_summary) = 4
         /\ right_summary[1] + right_summary[3] <= min_sample_leaf

\* main.rs 264-270: the candidate is skipped
Discard(left_summary, right_summary) ==
    \/ Len(left_summary) # 4
    \/ Len(right_summary) # 4
    \/ left_summary[1] + left_summary[3] <= min_sample_leaf
    \/ right_summary[1] + right_summary[3] <= min_sample_leaf

\* the comparison with >= in place of >
Improves_Ge(gain, max_gain) == ~RGt(max_gain, gain)

\* main.rs 278: if gain > max_gain
Improves(gain, max_gain) == RGt(gain, max_gain)

\* main.rs 249-253: the locals before the loop
Locals0 ==
    [max_gain |-> F64Min, best_data_left |-> {}, best_data_right |-> {},
     split_col |-> "", split_value |-> Numeric(0), panic |-> ""]

\* main.rs 278-284: the candidate's gain against the best so far
Score(cand, acc, parts, gain) ==
    IF Improves(gain, acc.max_gain)
    THEN [acc EXCEPT !.max_gain = gain,
                     !.best_data_left = parts[1],
                     !.best_data_right = parts[2],
                     !.split_col = cand.f,
                     !.split_value = cand.v]
    ELSE acc

\* main.rs 264-277: the skip, then calc_score's assertion on each side
Judge(data, cur_summary, cur_score, cand, acc, parts, left_summary, right_summary) ==
    IF Discard(left_summary, right_summary) THEN acc
    ELSE IF Len(left_summary) # 4 \/ Len(right_summary) # 4
    THEN [acc EXCEPT !.panic = "panic_assert_side"]
    ELSE Score(cand, acc, parts,
               Gain(data, cur_score, cur_summary, parts[1],
                    left_summary, right_summary))

\* main.rs 262-263: the summaries of the two sides
Summarize(data, cur_summary, cur_score, cand, acc, parts) ==
    Judge(data, cur_summary, cur_score, cand, acc, parts,
          summary(parts[1]), summary(parts[2]))

\* one iteration of the inner loop (main.rs 260-285)
Step(data, cur_summary, cur_score, cand, acc) ==
    Summarize(data, cur_summary, cur_score, cand, acc,
              split_set(cand.v, cand.f, data))

\* the inner loop over one feature's candidates
RECURSIVE SearchValues(_, _, _, _, _)
SearchValues(data, cur_summary, cur_score, cands, acc) ==
    IF cands = <<>> \/ acc.panic # "" THEN acc
    ELSE SearchValues(data, cur_summary, cur_score, Tail(cands),
                      Step(data, cur_summary, cur_score, Head(cands), acc))

\* the guard with >= in place of >
CommitGuard_Ge(max_gain, depth) == ~RGt(RZero, max_gain) /\ depth < max_depth

\* main.rs 287: if max_gain > 0. && depth < self.max_depth
CommitGuard(max_gain, depth) == RGt(max_gain, RZero) /\ depth < max_depth

(***************************************************************************)
(* The call stack                                                          *)
(***************************************************************************)
NewFrame(data, cur_idx, depth) ==
    [data |-> data, cur_idx |-> cur_idx, depth |-> depth, pc |-> "start",
     cur_summary |-> <<>>, entry_nodes |-> nodes,
     cands |-> <<>>,     \* the loop's candidates in iteration order, while it is in scope
     max_gain |-> F64Min, best_data_left |-> {}, best_data_right |-> {},
     split_col |-> "", split_value |-> Numeric(0)]

NoRet == [pending |-> FALSE, value |-> -1, idx |-> 0, searched |-> FALSE,
          max_gain |-> F64Min, entry_nodes |-> <<>>]

Top == stack[Len(stack)]

Pop == SubSeq(stack, 1, Len(stack) - 1)

SetTop(f) == [stack EXCEPT ![Len(stack)] = f]

\* the top call returns `value` to its caller
Returns(value, searched) ==
    /\ stack' = Pop
    /\ ret' = [pending |-> TRUE, value |-> value, idx |-> Top.cur_idx,
               searched |-> searched, max_gain |-> Top.max_gain,
               entry_nodes |-> Top.entry_nodes]

Running == status = "running" /\ stack # <<>> /\ ~ret.pending

NoArg == [kind |-> "none"]

(***************************************************************************)
(* Initial states: a constructed model and the rows of the data file       *)
(***************************************************************************)
\* The data file: n rows; the numeric feature x is shared by consecutive row
\* pairs, the categorical feature c cycles through Cats, the treatment
\* alternates (so a file of one row has a single arm) and the outcome is free.
CatOf(r) == CASE r % 3 = 1 -> "a" [] r % 3 = 2 -> "b" [] OTHER -> "c"

Tables ==
    UNION {[1..n -> {0, 1}] : n \in 1..MaxRows}

MkTable(ys) ==
    [r \in DOMAIN ys |->
        [x |-> (r + 1) \div 2, c |-> CatOf(r), t |-> r % 2, y |-> ys[r]]]

Init ==
    /\ \E ys \in Tables : table = MkTable(ys)
    /\ max_depth \in 1..MaxDepth
    /\ min_sample_leaf \in 0..MaxLeaf
    /\ feature_sample_size \in 1..Len(feature_cols)
    /\ max_splits \in 1..MaxSplits
    /\ nodes = [i \in 0..(NodesLen(max_depth) - 1) |-> TreeNode_new]
    /\ borrowed = FALSE
    /\ stack = <<>>
    /\ ret = NoRet
    /\ status = "new"
    /\ arg = NoArg
    /\ out = NoArg

(***************************************************************************)
(* Actions                                                                 *)
(***************************************************************************)
\* fit (main.rs 76-124): self.build(data, 0, 0)
fit ==
    /\ status = "new"
    /\ status' = "running"
    /\ stack' = <<NewFrame(DOMAIN table, 0, 0)>>
    /\ UNCHANGED <<params, nodes, borrowed, ret, arg, out>>

\* main.rs 241-243: the depth stop
BuildDepthStop ==
    /\ Running /\ Top.pc = "start"
    /\ Top.depth >= max_depth
    /\ Returns(-1, FALSE)
    /\ UNCHANGED <<params, nodes, borrowed, status, arg, out>>

\* the frame after the loop, and the panic the loop may have ended in
Searched(cur_summary, cands, acc) ==
    /\ status' = IF acc.panic # "" THEN acc.panic ELSE status
    /\ stack' = SetTop([Top EXCEPT
          !.pc = "searched",
          !.cur_summary = cur_summary,
          !.cands = cands,
          !.max_gain = acc.max_gain,
          !.best_data_left = acc.best_data_left,
          !.best_data_right = acc.best_data_right,
          !.split_col = acc.split_col,
          !.split_value = acc.split_value])

\* the outer loop (main.rs 255-286) over the sampled features still to visit;
\* cands: the candidates visited so far; a panicking calc_split_values ends it
RECURSIVE Search(_, _, _, _, _)
Search(cur_summary, cur_score, feats, cands, acc) ==
    IF feats = <<>> \/ acc.panic # "" THEN Searched(cur_summary, cands, acc)
    ELSE \E r \in calc_split_values(Column(Top.data, Head(feats)),
                                    is_numeric(Head(feats)), max_splits) :
            IF r.panic
            THEN Searched(cur_summary, cands, [acc EXCEPT !.panic = "panic_rem_zero"])
            ELSE Search(cur_summary, cur_score, Tail(feats),
                        cands \o Tagged(Head(feats), r.vals),
                        SearchValues(Top.data, cur_summary, cur_score,
                                     Tagged(Head(feats), r.vals), acc))

\* main.rs 245-248: the summary of the call's data, asserted by calc_score
Summarized(cur_summary) ==
    IF Len(cur_summary) # 4
    THEN /\ status' = "panic_assert_cur"
         /\ UNCHANGED stack
    ELSE \E feats \in SampleFeatures(feature_sample_size) :
            Search(cur_summary, calc_score(cur_summary), feats, <<>>, Locals0)

\* main.rs 245-286: the summary of the call's data, then the candidate loop
BuildSearch ==
    /\ Running /\ Top.pc = "start"
    /\ Top.depth < max_depth
    /\ Summarized(summary(Top.data))
    /\ UNCHANGED <<params, nodes, borrowed, ret, arg, out>>

\* main.rs 287-290: self.nodes.borrow_mut()[cur_idx], then the two fields
BuildCommit ==
    /\ Running /\ Top.pc = "searched"
    /\ CommitGuard(Top.max_gain, Top.depth)
    /\ IF borrowed
       THEN /\ status' = "panic_borrow"
            /\ stack' = SetTop([Top EXCEPT !.pc = "commit", !.cands = <<>>])
            /\ UNCHANGED <<nodes, borrowed>>
       ELSE IF Top.cur_idx >= NodesLen(max_depth)
       THEN /\ status' = "panic_index"
            /\ stack' = SetTop([Top EXCEPT !.pc = "commit", !.cands = <<>>])
            /\ UNCHANGED <<nodes, borrowed>>
       ELSE /\ borrowed' = TRUE
            /\ nodes' = [nodes EXCEPT ![Top.cur_idx].col_name = Top.split_col,
                                      ![Top.cur_idx].split_value = Top.split_value]
            /\ stack' = SetTop([Top EXCEPT !.pc = "call_true", !.cands = <<>>])
            /\ UNCHANGED status
    /\ UNCHANGED <<params, ret, arg, out>>

\* the else branch returning the slot index in place of -1
BuildNoSplit_Idx ==
    /\ Running /\ Top.pc = "searched"
    /\ ~CommitGuard(Top.max_gain, Top.depth)
    /\ Returns(Top.cur_idx, TRUE)
    /\ UNCHANGED <<params, nodes, borrowed, status, arg, out>>

\* main.rs 294-296: Ok(-1)
BuildNoSplit ==
    /\ Running /\ Top.pc = "searched"
    /\ ~CommitGuard(Top.max_gain, Top.depth)
    /\ Returns(-1, TRUE)
    /\ UNCHANGED <<params, nodes, borrowed, status, arg, out>>

\* main.rs 291: self.build(best_data_left, 2 * cur_idx + 1, depth + 1)
CallTrue ==
    /\ Running /\ Top.pc = "call_true"
    /\ stack' = Append(SetTop([Top EXCEPT !.pc = "wait_true"]),
                       NewFrame(Top.best_data_left, 2 * Top.cur_idx + 1,
                                Top.depth + 1))
    /\ UNCHANGED <<params, nodes, borrowed, ret, status, arg, out>>

\* main.rs 291: cur_node.true_branch = <the call's result>
AssignTrue ==
    /\ status = "running" /\ stack # <<>> /\ ret.pending
    /\ Top.pc = "wait_true"
    /\ nodes' = [nodes EXCEPT ![Top.cur_idx].true_branch = ret.value]
    /\ ret' = NoRet
    /\ stack' = SetTop([Top EXCEPT !.pc = "call_false"])
    /\ UNCHANGED <<params, borrowed, status, arg, out>>

\* main.rs 292: self.build(best_data_right, 2 * cur_idx + 2, depth + 1)
CallFalse ==
    /\ Running /\ Top.pc = "call_false"
    /\ stack' = Append(SetTop([Top EXCEPT !.pc = "wait_false"]),
                       NewFrame(Top.best_data_right, 2 * Top.cur_idx + 2,
                                Top.depth + 1))
    /\ UNCHANGED <<params, nodes, borrowed, ret, status, arg, out>>

\* main.rs 292: cur_node.false_branch = <the call's result>
AssignFalse ==
    /\ status = "running" /\ stack # <<>> /\ ret.pending
    /\ Top.pc = "wait_false"
    /\ nodes' = [nodes EXCEPT ![Top.cur_idx].false_branch = ret.value]
    /\ ret' = NoRet
    /\ stack' = SetTop([Top EXCEPT !.pc = "return"])
    /\ UNCHANGED <<params, borrowed, status, arg, out>>

\* main.rs 293: Ok(cur_idx as i32); the RefMut is dropped at the block's end
BuildReturn ==
    /\ Running /\ Top.pc = "return"
    /\ borrowed' = FALSE
    /\ Returns(Top.cur_idx, TRUE)
    /\ UNCHANGED <<params, nodes, status, arg, out>>

\* main.rs 122-123: build(..)? has returned to fit
FitDone ==
    /\ status = "running" /\ stack = <<>> /\ ret.pending
    /\ status' = "done"
    /\ UNCHANGED <<params, nodes, borrowed, stack, ret, arg, out>>

Next ==
    \/ fit
    \/ BuildDepthStop
    \/ BuildSearch
    \/ BuildCommit
    \/ BuildNoSplit
    \/ CallTrue
    \/ AssignTrue
    \/ CallFalse
    \/ AssignFalse
    \/ BuildReturn
    \/ FitDone

Spec == Init /\ [][Next]_vars

(***************************************************************************)
(* calc_split_values and split_set applied on their own to bounded inputs  *)
(***************************************************************************)
Idle ==
    /\ max_depth = 1
    /\ min_sample_leaf = 0
    /\ feature_sample_size = 1
    /\ nodes = [i \in 0..0 |-> TreeNode_new]
    /\ borrowed = FALSE
    /\ stack = <<>>
    /\ ret = NoRet
    /\ status = "new"
    /\ out = NoArg

Columns ==
    UNION {[1..n -> {Numeric(v) : v \in 1..MaxVal}] : n \in 0..MaxLen}
    \cup UNION {[1..n -> {Str(c) : c \in Cats}] : n \in 1..MaxLen}

InitCalc ==
    /\ Idle
    /\ table = <<>>
    /\ max_splits \in 1..MaxSplits
    /\ \E col \in Columns :
          arg = [kind |-> "calc", col |-> col,
                 numeric |-> \A i \in DOMAIN col : col[i].kind = "Numeric"]

\* self.calc_split_values(col_values)
CalcSplitValues ==
    /\ arg.kind = "calc" /\ out.kind = "none"
    /\ \E r \in calc_split_values(arg.col, arg.numeric, max_splits) :
          out' = [kind |-> "calc", res |-> r]
    /\ UNCHANGED <<params, nodes, borrowed, stack, ret, status, arg>>

SpecCalc == InitCalc /\ [][CalcSplitValues]_vars

InitSplit ==
    /\ Idle
    /\ max_splits = 1
    /\ \E n \in 0..MaxLen :
          table \in [1..n -> [x : 1..MaxVal, c : Cats, t : {0}, y : {0}]]
    /\ \E f \in Range(feature_cols) :
          \E v \in IF is_numeric(f) THEN {Numeric(k) : k \in 1..MaxVal}
                   ELSE {Str(c) : c \in Cats} :
             arg = [kind |-> "split", f |-> f, v |-> v]

\* self.split_set(v, f, data)
SplitSet ==
    /\ arg.kind = "split" /\ out.kind = "none"
    /\ out' = [kind |-> "split", parts |-> split_set(arg.v, arg.f, DOMAIN table)]
    /\ UNCHANGED <<params, nodes, borrowed, stack, ret, status, arg>>

SpecSplit == InitSplit /\ [][SplitSet]_vars

(***************************************************************************)
(* Properties                                                              *)
(***************************************************************************)
\* the positions of a call that has taken the commit branch of main.rs 287
CommitPcs == {"commit", "call_true", "wait_true", "call_false", "wait_false", "return"}

\* the call is about to take, or has taken, the commit branch
Commits(fr) ==
    \/ fr.pc \in CommitPcs
    \/ fr.pc = "searched" /\ CommitGuard(fr.max_gain, fr.depth)

Arms(data) == {table[r].t : r \in data}

\* C1: every slot index at which build takes the commit branch lies inside the
\* preallocated node array, [0, 2^(max_depth-1)), and its depth is at most
\* max_depth.
C1_CommitWithinNodes ==
    \A i \in DOMAIN stack :
        stack[i].pc \in CommitPcs =>
            /\ stack[i].cur_idx \in DOMAIN nodes
            /\ stack[i].cur_idx < NodesLen(max_depth)
            /\ stack[i].depth <= max_depth

\* C2: a build call whose best gain is <= 0 (or that kept no candidate) returns
\* -1, has modified no node slot, and leaves its own slot's col_name empty.
C2_NoSplitLeavesSlot ==
    (ret.pending /\ ret.searched /\ ~RGt(ret.max_gain, RZero)) =>
        /\ ret.value = -1
        /\ nodes = ret.entry_nodes
        /\ ret.idx \in DOMAIN nodes => nodes[ret.idx].col_name = ""

C2_Witness ==
    /\ ret.pending /\ ret.searched
    /\ ~RGt(ret.max_gain, RZero)
    /\ ret.max_gain # F64Min
    /\ ret.idx = 1

\* C3: both sides of every committed split hold more than min_sample_leaf rows
\* (control count plus treatment count).
LargeEnough(side_summary) ==
    /\ Len(side_summary) = 4
    /\ side_summary[1] + side_summary[3] > min_sample_leaf

C3_LeafSizeRespected ==
    \A i \in DOMAIN stack :
        Commits(stack[i]) =>
            /\ LargeEnough(summary(stack[i].best_data_left))
            /\ LargeEnough(summary(stack[i].best_data_right))

C3_Witness ==
    /\ min_sample_leaf >= 1
    /\ \E i \in DOMAIN stack :
          /\ stack[i].pc = "call_true"
          /\ Cardinality(stack[i].best_data_left) = min_sample_leaf + 1

Scorable(data_summary) ==
    /\ Len(data_summary) = 4
    /\ data_summary[1] >= 1
    /\ data_summary[3] >= 1

C5_SidesHaveBothArms ==
    /\ \A i \in DOMAIN stack :
          /\ Cardinality(Arms(stack[i].data)) = 1 => summary(stack[i].data) = <<>>
          /\ Commits(stack[i]) =>
                /\ Cardinality(Arms(stack[i].best_data_left)) = 2
                /\ Cardinality(Arms(stack[i].best_data_right)) = 2
          /\ stack[i].depth >= 1 =>
                /\ Cardinality(Arms(stack[i].data)) = 2
                /\ Scorable(summary(stack[i].data))
    /\ status # "panic_assert_side"
    /\ status = "panic_assert_cur" => Top.depth = 0

C5_Witness ==
    /\ Len(stack) = 2
    /\ stack[2].depth = 1
    /\ stack[2].pc = "searched"
    /\ stack[2].cands # <<>>

\* C6: after fit, a slot with a col_name has true_branch in {-1, 2i+1} and
\* false_branch in {-1, 2i+2}; a branch differs from -1 exactly when the slot it
\* names has a col_name; every such slot but the root is named by its parent.
HasSplit(i) == i \in DOMAIN nodes /\ nodes[i].col_name # ""

C6_PointersConsistent ==
    status = "done" =>
        \A i \in DOMAIN nodes :
            nodes[i].col_name # "" =>
                /\ nodes[i].true_branch \in {-1, 2 * i + 1}
                /\ nodes[i].false_branch \in {-1, 2 * i + 2}
                /\ nodes[i].true_branch # -1 <=> HasSplit(2 * i + 1)
                /\ nodes[i].false_branch # -1 <=> HasSplit(2 * i + 2)
                /\ i # 0 =>
                      /\ HasSplit((i - 1) \div 2)
                      /\ i \in {nodes[(i - 1) \div 2].true_branch,
                                nodes[(i - 1) \div 2].false_branch}

C6_Witness ==
    /\ status = "done"
    /\ nodes[0].col_name # ""
    /\ Cardinality(DOMAIN nodes) > 1

\* C7: the committed (feature, value, left, right) are those of the first
\* candidate, in iteration order, whose gain is the maximum over the kept
\* candidates; the node and the child calls receive exactly these.
Rated(fr, cand, parts, left_summary, right_summary) ==
    IF Discard(left_summary, right_summary)
    THEN [kept |-> FALSE, gain |-> F64Min, parts |-> parts]
    ELSE [kept |-> TRUE, parts |-> parts,
          gain |-> Gain(fr.data, calc_score(fr.cur_summary), fr.cur_summary,
                        parts[1], left_summary, right_summary)]

RatedParts(fr, cand, parts) ==
    Rated(fr, cand, parts, summary(parts[1]), summary(parts[2]))

\* every candidate of the loop with its two sides, whether it is kept, its gain
RECURSIVE Ratings(_, _)
Ratings(fr, k) ==
    IF k > Len(fr.cands) THEN <<>>
    ELSE <<RatedParts(fr, fr.cands[k],
                      split_set(fr.cands[k].v, fr.cands[k].f, fr.data))>>
         \o Ratings(fr, k + 1)

\* k is the first kept candidate whose gain no kept candidate exceeds
FirstMax(rs, k) ==
    /\ rs[k].kept
    /\ \A j \in DOMAIN rs : rs[j].kept => ~RGt(rs[j].gain, rs[k].gain)
    /\ \A j \in 1..(k - 1) : rs[j].kept => RGt(rs[k].gain, rs[j].gain)

WinnerKept(fr, rs) ==
    \E k \in DOMAIN rs :
        /\ FirstMax(rs, k)
        /\ fr.max_gain = rs[k].gain
        /\ fr.split_col = fr.cands[k].f
        /\ fr.split_value = fr.cands[k].v
        /\ <<fr.best_data_left, fr.best_data_right>> = rs[k].parts

C7_FirstMaximumWins ==
    /\ \A i \in DOMAIN stack :
          (stack[i].pc = "searched" /\ CommitGuard(stack[i].max_gain, stack[i].depth)) =>
             WinnerKept(stack[i], Ratings(stack[i], 1))
    /\ \A i \in DOMAIN stack :
          /\ stack[i].pc \in CommitPcs \ {"commit"} =>
                /\ nodes[stack[i].cur_idx].col_name = stack[i].split_col
                /\ nodes[stack[i].cur_idx].split_value = stack[i].split_value
          /\ (stack[i].pc = "wait_true" /\ i < Len(stack)) =>
                stack[i + 1].data = stack[i].best_data_left
          /\ (stack[i].pc = "wait_false" /\ i < Len(stack)) =>
                stack[i + 1].data = stack[i].best_data_right

\* a later candidate ties with the winner
Tie(rs) ==
    \E k, j \in DOMAIN rs :
        k < j /\ FirstMax(rs, k) /\ rs[j].kept /\ rs[j].gain = rs[k].gain

\* a commit where a later candidate ties with the winner
C7_Witness ==
    \E i \in DOMAIN stack :
        /\ stack[i].pc = "searched"
        /\ CommitGuard(stack[i].max_gain, stack[i].depth)
        /\ Tie(Ratings(stack[i], 1))

\* C8: no build call acquires the node array while another call holds its
\* exclusive access: no RefCell borrow failure occurs.
C8_NoBorrowConflict == status # "panic_borrow"

\* C9: in the numeric branch for more distinct values than max_splits, the
\* stride row_count / max_splits is at least 1 and the modulo never divides by
\* zero.
C9_StrideNonZero ==
    (out.kind = "calc" /\ out.res.branch = "stride") =>
        /\ Cardinality(Range(arg.col)) > max_splits
        /\ split_range(arg.col, max_splits) >= 1
        /\ ~out.res.panic

C9_Witness ==
    /\ out.kind = "calc"
    /\ out.res.branch = "stride"
    /\ Len(arg.col) % max_splits # 0
    /\ Len(out.res.vals) >= 1

\* C10: calc_split_values returns at most max_splits candidates, in each of its
\* three branches.
C10_AtMostMaxSplits ==
    (out.kind = "calc" /\ ~out.res.panic) => Len(out.res.vals) <= max_splits

====
